---- MODULE Spec2Model ----
(***************************************************************************)
(* A model of src/app.py, the Streamlit healthcare dashboard.              *)
(*                                                                         *)
(* The script is one top-to-bottom run: load the CSV, render the page      *)
(* title, resolve the seven role columns, draw the sidebar filters, filter *)
(* the table, compute the KPIs and the charts.  Streamlit re-executes the  *)
(* whole script whenever a sidebar selection changes (action Rerun).  pc   *)
(* is the position of the run, error the exception that ended it, if any.  *)
(*                                                                         *)
(* Text (column names, date cells) is a sequence of one-character strings, *)
(* so that strip(), lower(), the substring test and date parsing are       *)
(* computed, not assumed.                                                  *)
(***************************************************************************)
EXTENDS Integers, Sequences, FiniteSets, TLC

VARIABLES
    pc,                 \* position of the script run
    csv_columns,        \* header of data/healthcare_dataset.csv, as written
    csv_rows,           \* rows of the file
    random_state,       \* the draw that random_state=42 fixes (see sample)
    selection,          \* session widget state: "default" or the chosen sets
    columns,            \* df.columns
    df,                 \* the loaded table (sequence of rows)
    df_at_load,         \* history: df as the first run loaded it
    role_col,           \* gender_col .. age_col, by role
    gender_filter,
    condition_filter,
    df_filtered,
    total_patients,
    avg_age,
    avg_billing,
    avg_stay,
    df_gender_counts,
    most_genders,
    gender_insight,
    condition_counts_df,
    condition_insight,
    patient_flow,
    admissions_over_time,
    billing_trend,
    rendered,           \* what st.* calls have put on the page, in order
    error               \* "none", or the exception that aborted the run

vars == <<pc, csv_columns, csv_rows, random_state, selection, columns, df,
          df_at_load, role_col, gender_filter, condition_filter, df_filtered,
          total_patients, avg_age, avg_billing, avg_stay, df_gender_counts,
          most_genders, gender_insight, condition_counts_df,
          condition_insight, patient_flow, admissions_over_time,
          billing_trend, rendered, error>>

\* The value of a script variable the run has not assigned yet.
Unset == <<"unset">>

----------------------------------------------------------------------------
(* Text *)

UpperCase == <<"A","B","C","D","E","F","G","H","I","J","K","L","M","N","O","P","Q","R","S","T","U","V","W","X","Y","Z">>
LowerCase == <<"a","b","c","d","e","f","g","h","i","j","k","l","m","n","o","p","q","r","s","t","u","v","w","x","y","z">>
Whitespace == {" ", "\t"}

\* the upper-case letters, each with its lower-case form
ToLower ==
    [c \in {UpperCase[i] : i \in 1..Len(UpperCase)} |->
        LowerCase[CHOOSE i \in 1..Len(UpperCase) : UpperCase[i] = c]]

\* str.lower() on one character
lower_char(c) == IF c \in DOMAIN ToLower THEN ToLower[c] ELSE c

\* c.lower()
lower(s) == LET text == s IN [i \in 1..Len(text) |-> lower_char(text[i])]

\* str.strip(): drop leading and trailing whitespace
strip(s) ==
    LET keep == {i \in 1..Len(s) : s[i] \notin Whitespace}
    IN IF keep = {} THEN <<>>
       ELSE LET lo == CHOOSE i \in keep : \A j \in keep : i <= j
                hi == CHOOSE i \in keep : \A j \in keep : j <= i
            IN SubSeq(s, lo, hi)

\* the Python test `kw in s` on strings
contains(kw, s) ==
    LET word == kw
        text == s
    IN \E i \in 1..(Len(text) - Len(word) + 1) :
          \A j \in 1..Len(word) : text[i + j - 1] = word[j]

----------------------------------------------------------------------------
(* Column resolution, lines 13 and 28-34 *)

Roles == <<"gender", "condition", "admission", "discharge", "billing", "insurance", "age">>

\* the keyword each role's column is looked up by
Keywords ==
    [gender    |-> <<"g","e","n","d","e","r">>,
     condition |-> <<"c","o","n","d","i","t","i","o","n">>,
     admission |-> <<"a","d","m","i","s","s","i","o","n">>,
     discharge |-> <<"d","i","s","c","h","a","r","g","e">>,
     billing   |-> <<"b","i","l","l","i","n","g">>,
     insurance |-> <<"i","n","s","u","r","a","n","c","e">>,
     age       |-> <<"a","g","e">>]

Keyword(role) == Keywords[role]

\* df.columns.str.strip()
strip_columns(cols) == [i \in 1..Len(cols) |-> strip(cols[i])]

\* [c for c in df.columns if kw in c.lower()]
matching(cols, role) ==
    SelectSeq(cols, LAMBDA c : LET name == lower(c) IN contains(Keyword(role), name))

\* A bug the resolver could have: taking the last match.
first_match_last(cols, role) == matching(cols, role)[Len(matching(cols, role))]

\* [...][0], for a non-empty list of matches
first_match(cols, role) == matching(cols, role)[1]

\* the roles, in script order, that lines 28-34 bind before one has no match
ResolvedPrefix(cols) ==
    LET bad == {i \in 1..Len(Roles) : matching(cols, Roles[i]) = <<>>}
        n == IF bad = {} THEN Len(Roles)
             ELSE (CHOOSE i \in bad : \A j \in bad : i <= j) - 1
    IN SubSeq(Roles, 1, n)

----------------------------------------------------------------------------
(* Cells, rows and tables *)

\* A text cell as read_csv leaves it (dtype object).
Text(chars) == [k |-> "str", s |-> chars, t |-> 0]
\* An empty CSV cell: read_csv makes it NaN.
NaN == [k |-> "nan", s |-> <<>>, t |-> 0]
\* A parsed cell (datetime64): t is the day number of the date.
Timestamp(day) == [k |-> "ts", s |-> <<>>, t |-> day]
NaT == [k |-> "nat", s |-> <<>>, t |-> 0]

\* A missing value in a categorical column (gender, condition).
NoValue == "NaN"

\* The rows the input files are built from.  Rows 1-3 are the rows of the
\* end-to-end scenario of the specification; row 4 has a date no calendar
\* has, row 5 lacks its gender and admission cells.
RowPool == <<
    [gender |-> "M", condition |-> "Flu",
     admission |-> Text(<<"2","0","2","3","-","0","1","-","0","1">>),
     discharge |-> Text(<<"2","0","2","3","-","0","1","-","0","5">>),
     billing |-> 100, age |-> 30],
    [gender |-> "F", condition |-> "Flu",
     admission |-> Text(<<"2","0","2","3","-","0","2","-","0","1">>),
     discharge |-> Text(<<"2","0","2","3","-","0","2","-","0","3">>),
     billing |-> 200, age |-> 40],
    [gender |-> "M", condition |-> "Cold",
     admission |-> Text(<<"2","0","2","3","-","0","2","-","1","0">>),
     discharge |-> Text(<<"2","0","2","3","-","0","2","-","1","2">>),
     billing |-> 150, age |-> 50],
    [gender |-> "F", condition |-> "Cold",
     admission |-> Text(<<"2","0","2","3","-","0","2","-","3","0">>),
     discharge |-> Text(<<"2","0","2","3","-","0","3","-","0","1">>),
     billing |-> 300, age |-> 61],
    [gender |-> NoValue, condition |-> "Flu",
     admission |-> NaN,
     discharge |-> Text(<<"2","0","2","3","-","0","1","-","0","5">>),
     billing |-> 120, age |-> 25] >>

\* Row number i of a file (id is the index label pandas gives it), of kind k.
Row(i, k) ==
    [id |-> i, gender |-> RowPool[k].gender, condition |-> RowPool[k].condition,
     admission |-> RowPool[k].admission, discharge |-> RowPool[k].discharge,
     billing |-> RowPool[k].billing, age |-> RowPool[k].age]

\* df[col] as a sequence of cells, for the column bound to a role
column(frame, role) ==
    LET f == frame
    IN [i \in 1..Len(f) |->
          CASE role = "gender"    -> f[i].gender
            [] role = "condition" -> f[i].condition
            [] role = "admission" -> f[i].admission
            [] role = "discharge" -> f[i].discharge
            [] role = "billing"   -> f[i].billing
            [] role = "age"       -> f[i].age]

\* Series.unique(), as the set of values met (NaN included)
unique(values) == {values[i] : i \in 1..Len(values)}

----------------------------------------------------------------------------
(* Loading, lines 10-17 *)

\* "Keep only 2000 rows": the n of df.sample and the threshold of line 16
SampleCap == 2000

\* A bug sampling could have: drawing with replacement.
sample_with_replacement(rows, n, rs) ==
    [i \in 1..n |-> rows[((rs.shift + (i - 1)) % (n \div 2)) + 1]]

\* df.sample(n=2000, random_state=42): n rows at distinct positions drawn by
\* the seeded generator.  The draw is a fixed function of the seed that the
\* model does not compute: rs names one of a family of draws (a rotation of
\* the positions, walked forwards or backwards), fixed for the session.
sample(rows, n, rs) ==
    [i \in 1..n |->
        IF rs.dir = "fwd"
        THEN rows[((rs.shift + (i - 1)) % Len(rows)) + 1]
        ELSE rows[Len(rows) - ((rs.shift + (i - 1)) % Len(rows))]]

\* lines 16-17
cap_rows(rows, rs) ==
    IF Len(rows) > SampleCap THEN sample(rows, SampleCap, rs) ELSE rows

----------------------------------------------------------------------------
(* Filtering, lines 40-47 *)

\* Series.isin(values): NaN is in the values when NaN was selected
isin(values, allowed) == [i \in 1..Len(values) |-> values[i] \in allowed]

\* A bug the filter could have: either condition suffices.
mask_or(a, b) == [i \in 1..Len(a) |-> a[i] \/ b[i]]

\* the elementwise & of two boolean Series
mask_and(a, b) == [i \in 1..Len(a) |-> a[i] /\ b[i]]

\* df[mask]: the rows whose mask is True, in order, as a new table
boolean_index(frame, mask) ==
    LET kept == SelectSeq([i \in 1..Len(frame) |-> i], LAMBDA i : mask[i])
    IN [j \in 1..Len(kept) |-> frame[kept[j]]]

\* line 47
filter_rows(frame, gf, cf) ==
    boolean_index(frame, mask_and(isin(column(frame, "gender"), gf),
                                  isin(column(frame, "condition"), cf)))

----------------------------------------------------------------------------
(* Numbers *)

\* A float the script holds: v / 10^digits, or NaN.
Number(v, digits) == [k |-> "num", v |-> v, digits |-> digits]
FloatNaN == [k |-> "nan", v |-> 0, digits |-> 0]

RECURSIVE sum_between(_, _, _)
\* values[lo] + ... + values[hi], by halves
sum_between(values, lo, hi) ==
    IF lo > hi THEN 0
    ELSE IF lo = hi THEN values[lo]
    ELSE LET mid == (lo + hi) \div 2
         IN sum_between(values, lo, mid) + sum_between(values, mid + 1, hi)

sum_of(values) == LET v == values IN sum_between(v, 1, Len(v))

RECURSIVE power_of_ten(_)
power_of_ten(n) == IF n = 0 THEN 1 ELSE 10 * power_of_ten(n - 1)

\* p / q (q > 0) to the nearest integer, a tie going to the even one
round_half_even(p, q) ==
    LET fl == p \div q
        r == p - fl * q
    IN IF 2 * r < q THEN fl
       ELSE IF 2 * r > q THEN fl + 1
       ELSE IF fl % 2 = 0 THEN fl ELSE fl + 1

\* round(Series.mean(), digits) of the values that are not missing: the
\* mean of no value is NaN, and round(NaN) is NaN.  The quotient is rounded
\* as an exact fraction.
round_mean(values, digits) ==
    LET v == values
    IN IF Len(v) = 0 THEN FloatNaN
       ELSE Number(round_half_even(sum_of(v) * power_of_ten(digits), Len(v)), digits)

RECURSIVE sorted(_)
\* the numbers of a finite set, ascending
sorted(S) ==
    IF S = {} THEN <<>>
    ELSE LET lo == CHOOSE x \in S : \A y \in S : x <= y
         IN <<lo>> \o sorted(S \ {lo})

RECURSIVE permutations(_)
\* every ordering of a finite set
permutations(S) ==
    IF S = {} THEN {<<>>}
    ELSE UNION {{<<x>> \o q : q \in permutations(S \ {x})} : x \in S}

----------------------------------------------------------------------------
(* Dates, lines 56-58 and 176-191 *)

Digits == <<"0","1","2","3","4","5","6","7","8","9">>
DigitValue == [c \in {Digits[i] : i \in 1..Len(Digits)} |->
                  (CHOOSE i \in 1..Len(Digits) : Digits[i] = c) - 1]
is_digit(c) == c \in DOMAIN DigitValue
digit_value(c) == DigitValue[c]
digit_char(n) == Digits[n + 1]

is_leap(y) == (y % 4 = 0 /\ y % 100 # 0) \/ y % 400 = 0
days_in_month(y, m) ==
    IF m = 2 THEN (IF is_leap(y) THEN 29 ELSE 28)
    ELSE IF m \in {4, 6, 9, 11} THEN 30 ELSE 31

\* A date text is yyyy-mm-dd with the digits in their places.
well_formed(s) ==
    /\ Len(s) = 10
    /\ s[5] = "-" /\ s[8] = "-"
    /\ \A i \in {1, 2, 3, 4, 6, 7, 9, 10} : is_digit(s[i])

year_of(s) == 1000 * digit_value(s[1]) + 100 * digit_value(s[2])
              + 10 * digit_value(s[3]) + digit_value(s[4])
month_of(s) == 10 * digit_value(s[6]) + digit_value(s[7])
day_of(s) == 10 * digit_value(s[9]) + digit_value(s[10])

\* whether the text names a day of the calendar
parsable(s) ==
    /\ well_formed(s)
    /\ month_of(s) \in 1..12
    /\ day_of(s) \in 1..days_in_month(year_of(s), month_of(s))

\* A timestamp is kept as the number yyyymmdd.
ymd(y, m, d) == 10000 * y + 100 * m + d

\* whether pd.to_datetime(values) returns: with the default errors="raise"
\* one text that names no date raises for the whole column
can_parse(values) ==
    \A i \in 1..Len(values) : values[i].k = "str" => parsable(values[i].s)

\* one cell of pd.to_datetime(values): a missing cell becomes NaT
to_datetime_cell(c) ==
    IF c.k = "str"
    THEN (IF parsable(c.s)
          THEN Timestamp(ymd(year_of(c.s), month_of(c.s), day_of(c.s)))
          ELSE NaT)
    ELSE IF c.k = "nan" THEN NaT ELSE c

RECURSIVE days_before_month(_, _)
days_before_month(y, m) ==
    IF m = 1 THEN 0 ELSE days_before_month(y, m - 1) + days_in_month(y, m - 1)

\* the day's number in the calendar (day 1 is 0001-01-01)
day_number(t) ==
    LET y == t \div 10000
        m == (t \div 100) % 100
        d == t % 100
        py == y - 1
    IN 365 * py + py \div 4 - py \div 100 + py \div 400
       + days_before_month(y, m) + d

\* (discharge - admission).dt.days: missing when either side is NaT
stay_length(adm, dis) ==
    IF adm.k = "ts" /\ dis.k = "ts"
    THEN [k |-> "num", s |-> <<>>, t |-> day_number(dis.t) - day_number(adm.t)]
    ELSE NaN

number_values(cells) == [i \in 1..Len(cells) |-> cells[i].t]

\* the values of a column that are not missing, as numbers
present(cells) == number_values(SelectSeq(cells, LAMBDA c : c.k = "num"))

\* .dt.to_period("M") of a timestamp: the number yyyymm
to_period_M(t) == t \div 100

\* str(period): "yyyy-mm"
period_str(p) ==
    LET y == p \div 100
        m == p % 100
    IN <<digit_char(y \div 1000), digit_char((y \div 100) % 10),
         digit_char((y \div 10) % 10), digit_char(y % 10), "-",
         digit_char(m \div 10), digit_char(m % 10)>>

\* period.to_timestamp(): the first day of the month
to_timestamp(p) == Timestamp(100 * p + 1)

----------------------------------------------------------------------------
(* The funnel's arithmetic, line 131 *)

\* A double is m * 2^-53 with m below 2^53, kept as three limbs of 18 bits,
\* highest first, because m does not fit TLC's 32-bit integers.
LimbBase == 2^18

\* A bug the literal could have: 0.8 cut off instead of rounded to the
\* nearest double, one unit in the last place lower.
Double08_truncated == <<104857, 157286, 104857>>

\* 0.8 as the script holds it: 7205759403792794 * 2^-53
Double08 == <<104857, 157286, 104858>>
\* 0.75 is 3 * 2^-2, exactly: 6755399441055744 * 2^-53
Double075 == <<98304, 0, 0>>

RECURSIVE bit_length(_)
bit_length(x) == IF x = 0 THEN 0 ELSE 1 + bit_length(x \div 2)

\* limbs <<p3, p2, p1, p0>> with p2, p1, p0 below LimbBase, carries passed up
normalise(p) ==
    LET c0 == p[4] \div LimbBase
        l1 == p[3] + c0
        c1 == l1 \div LimbBase
        l2 == p[2] + c1
        c2 == l2 \div LimbBase
    IN <<p[1] + c2, l2 % LimbBase, l1 % LimbBase, p[4] % LimbBase>>

\* the exact product n * m, as limbs
exact_product(n, m) == normalise(<<0, n * m[1], n * m[2], n * m[3]>>)

\* The product as a double: the exact product rounded to 53 significant
\* bits, a tie going to the even mantissa.  The bits dropped are fewer than
\* 18 and so lie in the lowest limb.
round_to_double(p) ==
    LET len == IF p[1] > 0 THEN 3 * 18 + bit_length(p[1])
               ELSE IF p[2] > 0 THEN 2 * 18 + bit_length(p[2])
               ELSE IF p[3] > 0 THEN 18 + bit_length(p[3])
               ELSE bit_length(p[4])
        drop == IF len > 53 THEN len - 53 ELSE 0
        unit == 2^drop
        rest == p[4] % unit
        odd == (p[4] \div unit) % 2 = 1
        up == drop > 0 /\ (2 * rest > unit \/ (2 * rest = unit /\ odd))
    IN normalise(<<p[1], p[2], p[3], p[4] - rest + (IF up THEN unit ELSE 0)>>)

\* int(x) of a double x >= 0 given as limbs of x * 2^53
int_of_double(p) == 2 * p[1] + p[2] \div (2^17)

\* int(n * x) for the double x
int_times(n, x) == int_of_double(round_to_double(exact_product(n, x)))

\* the Count list of patient_flow
funnel_counts(n) == <<n, int_times(n, Double08), int_times(n, Double075)>>

----------------------------------------------------------------------------
(* Input files *)

\* The header the input files are built from: columns of the dataset the
\* dashboard is written for, two of them with surrounding blanks, plus an
\* upper-case second gender column.  "Admission Type" is a second match of
\* the admission role.
HeaderPool == <<
    <<"N","a","m","e">>,
    <<" ","A","g","e">>,
    <<"G","e","n","d","e","r"," ">>,
    <<"M","e","d","i","c","a","l"," ","C","o","n","d","i","t","i","o","n">>,
    <<"D","a","t","e"," ","o","f"," ","A","d","m","i","s","s","i","o","n">>,
    <<"I","n","s","u","r","a","n","c","e"," ","P","r","o","v","i","d","e","r">>,
    <<"B","i","l","l","i","n","g"," ","A","m","o","u","n","t">>,
    <<"A","d","m","i","s","s","i","o","n"," ","T","y","p","e">>,
    <<"D","i","s","c","h","a","r","g","e"," ","D","a","t","e">>,
    <<"P","A","T","I","E","N","T"," ","G","E","N","D","E","R">> >>

reverse(s) == [i \in 1..Len(s) |-> s[Len(s) + 1 - i]]

\* Headers: any selection of one or more of the pool's columns, in the
\* pool's order or in the opposite order.
Headers ==
    LET pick(S) == SelectSeq(HeaderPool, LAMBDA c : \E i \in S : HeaderPool[i] = c)
    IN UNION {{pick(S), reverse(pick(S))} : S \in (SUBSET (1..Len(HeaderPool))) \ {{}}}

\* longest file, in rows, of the files whose every row is chosen freely
MaxRows == 3

RECURSIVE SeqsUpTo(_, _)
SeqsUpTo(S, n) ==
    IF n = 0 THEN {<<>>}
    ELSE LET shorter == SeqsUpTo(S, n - 1)
         IN shorter \cup {Append(q, x) : q \in {r \in shorter : Len(r) = n - 1}, x \in S}

\* files of at most MaxRows rows, every row of any kind
SmallTables ==
    {[i \in 1..Len(kinds) |-> Row(i, kinds[i])] :
        kinds \in SeqsUpTo(1..Len(RowPool), MaxRows)}

\* how many rows beyond the cap the long files have, at most
MaxExtra == 1
\* how far the seeded draw may be rotated
MaxShift == 1

\* long files, around the cap: the rows of the scenario, repeated
LongTables ==
    {[i \in 1..n |-> Row(i, ((i - 1) % 3) + 1)] :
        n \in (SampleCap - 1)..(SampleCap + MaxExtra)}

RandomStates == [dir : {"fwd", "rev"}, shift : 0..MaxShift]

ScenarioTable == <<Row(1, 1), Row(2, 2), Row(3, 3)>>

----------------------------------------------------------------------------
(* The script run *)

NoColumn == <<>>
NoSelection == [touched |-> FALSE, gender |-> {}, condition |-> {}]

RoleSet == {Roles[i] : i \in 1..Len(Roles)}

InitRun ==
    /\ pc = "load"
    /\ selection = NoSelection
    /\ columns = Unset
    /\ df = Unset
    /\ df_at_load = Unset
    /\ role_col = [r \in RoleSet |-> NoColumn]
    /\ gender_filter = Unset
    /\ condition_filter = Unset
    /\ df_filtered = Unset
    /\ total_patients = Unset
    /\ avg_age = Unset
    /\ avg_billing = Unset
    /\ avg_stay = Unset
    /\ df_gender_counts = Unset
    /\ most_genders = Unset
    /\ gender_insight = Unset
    /\ condition_counts_df = Unset
    /\ condition_insight = Unset
    /\ patient_flow = Unset
    /\ admissions_over_time = Unset
    /\ billing_trend = Unset
    /\ rendered = <<>>
    /\ error = "none"

\* what a run leaves alone before it reaches the KPI section
aggregates == <<total_patients, avg_age, avg_billing, avg_stay,
                df_gender_counts, most_genders, gender_insight,
                condition_counts_df, condition_insight, patient_flow,
                admissions_over_time, billing_trend>>
inputs == <<csv_columns, csv_rows, random_state, selection>>

\* lines 10-17: read the file, strip the column names, cap the rows
Load ==
    /\ pc = "load"
    /\ columns' = strip_columns(csv_columns)
    /\ df' = cap_rows(csv_rows, random_state)
    /\ df_at_load' = IF selection.touched THEN df_at_load ELSE df'
    /\ pc' = "page"
    /\ UNCHANGED <<inputs, role_col, gender_filter, condition_filter,
                   df_filtered, aggregates, rendered, error>>

\* lines 22-23: st.title
Page ==
    /\ pc = "page"
    /\ rendered' = Append(rendered, "title")
    /\ pc' = "resolve"
    /\ UNCHANGED <<inputs, columns, df, df_at_load, role_col, gender_filter,
                   condition_filter, df_filtered, aggregates, error>>

\* lines 28-34: one list comprehension and [0] per role, in script order;
\* [0] on an empty list raises IndexError and ends the run
Resolve ==
    /\ pc = "resolve"
    /\ \E bound \in {ResolvedPrefix(columns)} :
          /\ role_col' = [r \in RoleSet |->
                            IF \E i \in 1..Len(bound) : bound[i] = r
                            THEN first_match(columns, r) ELSE NoColumn]
          /\ IF Len(bound) = Len(Roles)
             THEN pc' = "sidebar" /\ error' = error
             ELSE pc' = "failed" /\ error' = "IndexError"
    /\ UNCHANGED <<inputs, columns, df, df_at_load, gender_filter,
                   condition_filter, df_filtered, aggregates, rendered>>

\* lines 39-47: the two multiselects (default: every value of the column)
\* and the filtered view
Sidebar ==
    /\ pc = "sidebar"
    /\ gender_filter' = IF selection.touched THEN selection.gender
                        ELSE unique(column(df, "gender"))
    /\ condition_filter' = IF selection.touched THEN selection.condition
                           ELSE unique(column(df, "condition"))
    /\ df_filtered' = filter_rows(df, gender_filter', condition_filter')
    /\ rendered' = Append(rendered, "sidebar")
    /\ pc' = "kpi"
    /\ UNCHANGED <<inputs, columns, df, df_at_load, role_col, aggregates, error>>

\* adding the option v to a multiselect's selection, or removing it
toggle(chosen, v) == IF v \in chosen THEN chosen \ {v} ELSE chosen \cup {v}

\* The user adds or removes one option in one of the two multiselects, once
\* the run has ended and the sidebar is on the page: Streamlit drops the page
\* and the script's variables and runs the script again from the top.
Rerun ==
    /\ pc \in {"done", "failed"}
    /\ \E i \in 1..Len(rendered) : rendered[i] = "sidebar"
    /\ \/ \E v \in unique(column(df, "gender")) :
             selection' = [touched |-> TRUE, gender |-> toggle(gender_filter, v),
                           condition |-> condition_filter]
       \/ \E v \in unique(column(df, "condition")) :
             selection' = [touched |-> TRUE, gender |-> gender_filter,
                           condition |-> toggle(condition_filter, v)]
    /\ pc' = "load"
    /\ columns' = Unset
    /\ df' = Unset
    /\ role_col' = [r \in RoleSet |-> NoColumn]
    /\ gender_filter' = Unset
    /\ condition_filter' = Unset
    /\ df_filtered' = Unset
    /\ total_patients' = Unset
    /\ avg_age' = Unset
    /\ avg_billing' = Unset
    /\ avg_stay' = Unset
    /\ df_gender_counts' = Unset
    /\ most_genders' = Unset
    /\ gender_insight' = Unset
    /\ condition_counts_df' = Unset
    /\ condition_insight' = Unset
    /\ patient_flow' = Unset
    /\ admissions_over_time' = Unset
    /\ billing_trend' = Unset
    /\ rendered' = <<>>
    /\ error' = "none"
    /\ UNCHANGED <<csv_columns, csv_rows, random_state, df_at_load>>

\* Writing a column of df_filtered as a view of df would: the cells of df
\* change too.
base_written_through(base, view) ==
    [i \in 1..Len(base) |->
        IF \E j \in 1..Len(view) : view[j].id = base[i].id
        THEN view[CHOOSE j \in 1..Len(view) : view[j].id = base[i].id]
        ELSE base[i]]

\* df after a column of df_filtered is written (lines 56-58): df[mask] made a
\* new table, so df keeps its cells
base_after_write(base, view) == base

with_admission(view) ==
    [i \in 1..Len(view) |->
        LET r == view[i]
        IN [r EXCEPT !.admission = to_datetime_cell(r.admission)]]

with_discharge(view) ==
    [i \in 1..Len(view) |->
        LET r == view[i]
        IN [r EXCEPT !.discharge = to_datetime_cell(r.discharge)]]

\* df_filtered["Stay Length"] = ...: every row gains the column
with_stay(view) ==
    [i \in 1..Len(view) |->
        LET r == view[i]
        IN [id |-> r.id, gender |-> r.gender, condition |-> r.condition,
            admission |-> r.admission, discharge |-> r.discharge,
            billing |-> r.billing, age |-> r.age,
            stay |-> stay_length(r.admission, r.discharge)]]

later == <<df_gender_counts, most_genders, gender_insight,
           condition_counts_df, condition_insight, patient_flow,
           admissions_over_time, billing_trend>>
bound_state == <<inputs, columns, df_at_load, role_col, gender_filter,
                 condition_filter>>

\* lines 52-67: the four KPIs.  pd.to_datetime raises on a text that names
\* no date, first for the admission column, then for the discharge column.
KPIs ==
    /\ pc = "kpi"
    /\ total_patients' = Len(df_filtered)
    /\ avg_age' = round_mean(column(df_filtered, "age"), 1)
    /\ avg_billing' = round_mean(column(df_filtered, "billing"), 2)
    /\ IF ~can_parse(column(df_filtered, "admission"))
       THEN /\ df_filtered' = df_filtered
            /\ df' = df
            /\ avg_stay' = avg_stay
            /\ rendered' = rendered
            /\ error' = "ValueError"
            /\ pc' = "failed"
       ELSE IF ~can_parse(column(df_filtered, "discharge"))
       THEN /\ df_filtered' = with_admission(df_filtered)
            /\ df' = base_after_write(df, df_filtered')
            /\ avg_stay' = avg_stay
            /\ rendered' = rendered
            /\ error' = "ValueError"
            /\ pc' = "failed"
       ELSE /\ df_filtered' = with_stay(with_discharge(with_admission(df_filtered)))
            /\ df' = base_after_write(df, df_filtered')
            /\ avg_stay' = round_mean(present([i \in 1..Len(df_filtered') |->
                                                  df_filtered'[i].stay]), 1)
            /\ rendered' = rendered \o <<"metrics", "divider">>
            /\ error' = error
            /\ pc' = "gender"
    /\ UNCHANGED <<bound_state, later>>

\* the values of a categorical column that groupby / value_counts keep:
\* both drop the missing value
groups_of(values) == unique(values) \ {NoValue}

count_of(values, g) == Cardinality({i \in 1..Len(values) : values[i] = g})

\* the orders a sort by Count, descending, can leave the groups in: groups
\* of equal count come in an order the sort does not promise
descending_orders(values) ==
    {q \in permutations(groups_of(values)) :
        \A i \in 1..(Len(q) - 1) : count_of(values, q[i]) >= count_of(values, q[i + 1])}

\* lines 76-78: Count and Percentage = Count / len(df_filtered) * 100 per
\* group; the percentage is kept as the fraction num / den
gender_counts(view, order) ==
    [i \in 1..Len(order) |->
        [gender |-> order[i],
         Count |-> count_of(column(view, "gender"), order[i]),
         Percentage |-> [num |-> 100 * count_of(column(view, "gender"), order[i]),
                         den |-> Len(view)]]]

\* A bug the tie handling could have: naming the first of the top groups.
top_groups_first_only(counts) ==
    IF Len(counts) = 0 THEN <<>> ELSE <<counts[1]>>

\* lines 92-93: the rows of df_gender_counts whose Count is the maximum
top_groups(counts) ==
    SelectSeq(counts, LAMBDA r : \A i \in 1..Len(counts) : counts[i].Count <= r.Count)

\* lines 95-106: the insight sentence, as its parts
insight_of(top, total) ==
    [kind |-> IF Len(top) = 1 THEN "most" ELSE "equal",
     names |-> [i \in 1..Len(top) |-> top[i].gender],
     count |-> IF top = <<>> THEN FloatNaN ELSE Number(top[1].Count, 0),
     percent |-> IF top = <<>> THEN FloatNaN
                 ELSE Number(round_half_even(top[1].Count * 100 * 10, total), 1)]

\* lines 76-106: the gender pie and its insight.  Over an empty view
\* max_count is NaN and len(df_filtered) is 0: max_count / 0 raises
\* ZeroDivisionError when the library hands NaN over as a Python float and
\* is NaN when it hands over a NumPy scalar.
GenderChart ==
    /\ pc = "gender"
    /\ \E order \in descending_orders(column(df_filtered, "gender")) :
          df_gender_counts' = gender_counts(df_filtered, order)
    /\ most_genders' = [i \in 1..Len(top_groups(df_gender_counts')) |->
                           top_groups(df_gender_counts')[i].gender]
    /\ \/ /\ Len(df_filtered) > 0
          /\ gender_insight' = insight_of(top_groups(df_gender_counts'), Len(df_filtered))
          /\ rendered' = rendered \o <<"gender_pie", "gender_insight">>
          /\ error' = error
          /\ pc' = "condition"
       \/ /\ Len(df_filtered) = 0
          /\ gender_insight' = insight_of(<<>>, 0)
          /\ rendered' = rendered \o <<"gender_pie", "gender_insight">>
          /\ error' = error
          /\ pc' = "condition"
       \/ /\ Len(df_filtered) = 0
          /\ gender_insight' = gender_insight
          /\ rendered' = rendered \o <<"gender_pie">>
          /\ error' = "ZeroDivisionError"
          /\ pc' = "failed"
    /\ UNCHANGED <<bound_state, df, df_filtered, total_patients, avg_age,
                   avg_billing, avg_stay, condition_counts_df,
                   condition_insight, patient_flow, admissions_over_time,
                   billing_trend>>

\* lines 109-110: value_counts(), most frequent first
condition_counts(view, order) ==
    [i \in 1..Len(order) |->
        [Condition |-> order[i],
         Count |-> count_of(column(view, "condition"), order[i])]]

\* lines 109-124: the condition bar chart and its insight.  The insight
\* reads row 0 of the counts: with no row, ['Condition'][0] raises KeyError.
ConditionChart ==
    /\ pc = "condition"
    /\ \E order \in descending_orders(column(df_filtered, "condition")) :
          condition_counts_df' = condition_counts(df_filtered, order)
    /\ IF condition_counts_df' = <<>>
       THEN /\ condition_insight' = condition_insight
            /\ rendered' = rendered \o <<"condition_bar">>
            /\ error' = "KeyError"
            /\ pc' = "failed"
       ELSE /\ condition_insight' = [name |-> condition_counts_df'[1].Condition,
                                     count |-> condition_counts_df'[1].Count]
            /\ rendered' = rendered \o <<"condition_bar", "condition_insight">>
            /\ error' = error
            /\ pc' = "funnel"
    /\ UNCHANGED <<bound_state, df, df_filtered, total_patients, avg_age,
                   avg_billing, avg_stay, df_gender_counts, most_genders,
                   gender_insight, patient_flow, admissions_over_time,
                   billing_trend>>

\* lines 129-144: the funnel.  The header of the input files has neither a
\* "Department" nor a "PaymentMethod" column, so lines 146-169 draw nothing.
Funnel ==
    /\ pc = "funnel"
    /\ patient_flow' = funnel_counts(Len(df_filtered))
    /\ rendered' = Append(rendered, "funnel")
    /\ pc' = "extra"
    /\ UNCHANGED <<bound_state, df, df_filtered, total_patients, avg_age,
                   avg_billing, avg_stay, df_gender_counts, most_genders,
                   gender_insight, condition_counts_df, condition_insight,
                   admissions_over_time, billing_trend, error>>

\* the months of the rows with an admission timestamp (groupby drops NaT)
months_of(view) ==
    {to_period_M(view[i].admission.t) :
        i \in {j \in 1..Len(view) : view[j].admission.k = "ts"}}

rows_of_month(view, p) ==
    SelectSeq(view, LAMBDA r : r.admission.k = "ts" /\ to_period_M(r.admission.t) = p)

\* lines 176-177: rows per admission month, the month as text
admissions_by_month(view) ==
    LET months == sorted(months_of(view))
    IN [i \in 1..Len(months) |->
          [month |-> period_str(months[i]),
           Count |-> Len(rows_of_month(view, months[i]))]]

\* lines 190-191: billing summed per admission month, the month as the
\* timestamp of its first day
billing_by_month(view) ==
    LET months == sorted(months_of(view))
    IN [i \in 1..Len(months) |->
          [month |-> to_timestamp(months[i]),
           billing |-> sum_of(column(rows_of_month(view, months[i]), "billing"))]]

\* lines 174-202
Extra ==
    /\ pc = "extra"
    /\ admissions_over_time' = admissions_by_month(df_filtered)
    /\ billing_trend' = billing_by_month(df_filtered)
    /\ rendered' = rendered \o <<"admissions_line", "billing_area">>
    /\ pc' = "preview"
    /\ UNCHANGED <<bound_state, df, df_filtered, total_patients, avg_age,
                   avg_billing, avg_stay, df_gender_counts, most_genders,
                   gender_insight, condition_counts_df, condition_insight,
                   patient_flow, error>>

\* lines 207-208
Preview ==
    /\ pc = "preview"
    /\ rendered' = Append(rendered, "preview")
    /\ pc' = "done"
    /\ UNCHANGED <<bound_state, df, df_filtered, aggregates, error>>

----------------------------------------------------------------------------
(* Specifications *)

\* Column resolution over every header.
InitResolver ==
    /\ csv_columns \in Headers
    /\ csv_rows = ScenarioTable
    /\ random_state = [dir |-> "fwd", shift |-> 0]
    /\ InitRun

NextResolver == Load \/ Page \/ Resolve

SpecResolver == InitResolver /\ [][NextResolver]_vars

\* Loading and filtering of files around the row cap.
InitLoad ==
    /\ csv_columns = HeaderPool
    /\ csv_rows \in LongTables
    /\ random_state \in IF Len(csv_rows) > SampleCap THEN RandomStates
                        ELSE {[dir |-> "fwd", shift |-> 0]}
    /\ InitRun

\* The dashboard over every short file.
Init ==
    /\ csv_columns = HeaderPool
    /\ csv_rows \in SmallTables
    /\ random_state = [dir |-> "fwd", shift |-> 0]
    /\ InitRun

Next ==
    \/ Load \/ Page \/ Resolve \/ Sidebar \/ KPIs \/ GenderChart
    \/ ConditionChart \/ Funnel \/ Extra \/ Preview \/ Rerun

Spec == Init /\ [][Next]_vars

SpecLoad == InitLoad /\ [][Next]_vars

\* The funnel over a filtered view of every size up to the cap: the run
\* stands before line 129 and only the length of the view is read.
InitFunnel ==
    /\ csv_columns = HeaderPool
    /\ csv_rows = <<>>
    /\ random_state = [dir |-> "fwd", shift |-> 0]
    /\ selection = NoSelection
    /\ pc = "funnel"
    /\ columns = strip_columns(HeaderPool)
    /\ df = Unset
    /\ df_at_load = Unset
    /\ role_col = [r \in RoleSet |-> first_match(columns, r)]
    /\ gender_filter = {"M"}
    /\ condition_filter = {"Flu"}
    /\ df_filtered \in {[i \in 1..n |-> Row(i, 1)] : n \in 0..SampleCap}
    /\ total_patients = Len(df_filtered)
    /\ avg_age = Unset
    /\ avg_billing = Unset
    /\ avg_stay = Unset
    /\ df_gender_counts = Unset
    /\ most_genders = Unset
    /\ gender_insight = Unset
    /\ condition_counts_df = Unset
    /\ condition_insight = Unset
    /\ patient_flow = Unset
    /\ admissions_over_time = Unset
    /\ billing_trend = Unset
    /\ rendered = <<"title", "sidebar", "metrics", "divider">>
    /\ error = "none"

SpecFunnel == InitFunnel /\ [][Funnel]_vars

----------------------------------------------------------------------------
(* Properties *)

\* st.* has put x on the page in this run
Shown(x) == \E i \in 1..Len(rendered) : rendered[i] = x

\* the run has read the file
Loaded == pc # "load"

\* the run has passed line 47: gender_filter, condition_filter and
\* df_filtered are assigned
Filtered == Shown("sidebar")

ids(frame) == [i \in 1..Len(frame) |-> frame[i].id]

\* the rows of a table whose gender is in G and whose condition is in C
Allowed(frame, G, C) ==
    SelectSeq(frame, LAMBDA r : r.gender \in G /\ r.condition \in C)

\* C1: once the view is filtered it is the subsequence of the loaded rows
\* whose gender is in the allowed gender set and whose condition is in the
\* allowed condition set (row for row before the dates are parsed, and the
\* same rows in the same order afterwards); with an empty allowed set the
\* view has no row.
C1_FilterIsConjunction ==
    Filtered =>
        /\ ids(df_filtered) = ids(Allowed(df, gender_filter, condition_filter))
        /\ pc = "kpi" => df_filtered = Allowed(df, gender_filter, condition_filter)
        /\ (gender_filter = {} \/ condition_filter = {}) => Len(df_filtered) = 0

\* a changed selection keeps some rows and drops others, one of them for
\* its condition alone
C1_Witness ==
    /\ pc = "kpi"
    /\ selection.touched
    /\ 0 < Len(df_filtered) /\ Len(df_filtered) < Len(df)
    /\ \E i \in 1..Len(df) : df[i].gender \in gender_filter
                             /\ df[i].condition \notin condition_filter

\* C2: the loaded table has at most 2000 rows and the view at most as many
\* as the loaded table; a file of more than 2000 rows is loaded as exactly
\* 2000 of its rows, no row twice, and a shorter file as all its rows.
C2_RowCap ==
    Loaded =>
        /\ Len(df) <= SampleCap
        /\ Filtered => Len(df_filtered) <= Len(df)
        /\ Len(csv_rows) > SampleCap =>
              /\ Len(df) = SampleCap
              /\ \A i \in 1..Len(df) :
                    df[i].id \in 1..Len(csv_rows) /\ df[i] = csv_rows[df[i].id]
              /\ Cardinality({df[i].id : i \in 1..Len(df)}) = Len(df)
        /\ Len(csv_rows) <= SampleCap => df = csv_rows

\* a file longer than the cap, sampled, then filtered by a changed selection
C2_Witness ==
    /\ pc = "kpi"
    /\ Len(csv_rows) > SampleCap
    /\ Len(df) = SampleCap
    /\ selection.touched
    /\ 0 < Len(df_filtered) /\ Len(df_filtered) < Len(df)

\* the positions of the header whose stripped, lower-cased name has the
\* role's keyword in it
MatchPositions(role) ==
    {i \in 1..Len(csv_columns) :
        contains(Keyword(role), lower(strip(csv_columns[i])))}

\* the roles the script reaches: those before the first role without a match
Reached(role) ==
    \A i \in 1..Len(Roles) :
        (\E j \in i..Len(Roles) : Roles[j] = role) /\ Roles[i] # role
            => MatchPositions(Roles[i]) # {}

\* C3: every role the resolver reaches and finds a match for is bound to the
\* stripped name of the first column, in header order, whose stripped and
\* lower-cased name contains the role's keyword.
C3_FirstMatch ==
    pc \in {"sidebar", "failed"} =>
        \A i \in 1..Len(Roles) :
            Reached(Roles[i]) /\ MatchPositions(Roles[i]) # {} =>
                \E p \in MatchPositions(Roles[i]) :
                    /\ \A q \in MatchPositions(Roles[i]) : p <= q
                    /\ role_col[Roles[i]] = strip(csv_columns[p])

\* all seven roles bound from a header with two gender and two admission
\* columns, the upper-case gender column first, the age column written
\* with a blank
C3_Witness ==
    /\ pc = "sidebar"
    /\ Cardinality(MatchPositions("gender")) = 2
    /\ Cardinality(MatchPositions("admission")) = 2
    /\ role_col["gender"] = <<"P","A","T","I","E","N","T"," ","G","E","N","D","E","R">>
    /\ role_col["age"] = <<"A","g","e">>

\* C4: a header that lacks a column for some role ends the run with a
\* ColumnResolutionError and with nothing on the page.
C4_ResolutionErrorRendersNothing ==
    (pc = "failed" /\ \E i \in 1..Len(Roles) : MatchPositions(Roles[i]) = {}) =>
        error = "ColumnResolutionError" /\ rendered = <<>>

\* C5: a run whose view is empty because the user emptied an allowed set
\* does not raise.
C5_EmptyViewCompletes ==
    (/\ Filtered
     /\ selection.touched
     /\ gender_filter = {} \/ condition_filter = {}
     /\ Len(df) > 0
     /\ Len(df_filtered) = 0) => error = "none"

\* the rows of the loaded table that are in the view
Viewed(i) == \E j \in 1..Len(df_filtered) : df_filtered[j].id = df[i].id

Unparsable(c) == c.k = "str" /\ ~parsable(c.s)

\* C6: a view with a row whose admission or discharge text names no date
\* does not make the run fail.
C6_BadDateRowIsSkipped ==
    (/\ Filtered
     /\ \E i \in 1..Len(df) :
           Viewed(i) /\ (Unparsable(df[i].admission) \/ Unparsable(df[i].discharge)))
    => pc # "failed"

\* the allowed sets the session's selection stands for
Selected ==
    IF selection.touched THEN <<selection.gender, selection.condition>>
    ELSE <<unique(column(df_at_load, "gender")), unique(column(df_at_load, "condition"))>>

\* C7: the loaded table stays the table the first run loaded, through date
\* parsing, the stay-length column and every later selection; the view holds
\* the rows of that table the current selection allows, and the total count
\* is their number.
C7_LoadedTableUntouched ==
    Loaded =>
        /\ df = df_at_load
        /\ Filtered =>
              /\ ids(df_filtered) = ids(Allowed(df_at_load, Selected[1], Selected[2]))
              /\ \A j \in 1..Len(df_filtered) :
                    /\ df_filtered[j].gender = df_at_load[df_filtered[j].id].gender
                    /\ df_filtered[j].condition = df_at_load[df_filtered[j].id].condition
                    /\ df_filtered[j].billing = df_at_load[df_filtered[j].id].billing
                    /\ df_filtered[j].age = df_at_load[df_filtered[j].id].age
        /\ Shown("metrics") =>
              total_patients = Len(Allowed(df_at_load, Selected[1], Selected[2]))

\* after a changed selection the run is over, the view's dates are parsed
\* and the loaded table still holds the text
C7_Witness ==
    /\ pc = "done"
    /\ selection.touched
    /\ \E j \in 1..Len(df_filtered) :
          /\ df_filtered[j].admission.k = "ts"
          /\ df[df_filtered[j].id].admission.k = "str"

\* how many rows of the view have gender g
GenderCount(g) == Cardinality({j \in 1..Len(df_filtered) : df_filtered[j].gender = g})

\* the gender values of the view, the missing value aside
GenderGroups == {df_filtered[j].gender : j \in 1..Len(df_filtered)} \ {NoValue}

\* the groups no other group outnumbers
TopGenders == {g \in GenderGroups : \A h \in GenderGroups : GenderCount(h) <= GenderCount(g)}

\* C8: over a non-empty view the gender insight names exactly the groups of
\* maximal count; it is the "most" sentence when one group is named, and
\* then carries that group's count and its percentage of the view.
C8_InsightNamesAllTopGroups ==
    (Shown("gender_insight") /\ Len(df_filtered) > 0) =>
        /\ {gender_insight.names[i] : i \in 1..Len(gender_insight.names)} = TopGenders
        /\ Len(gender_insight.names) = Cardinality(TopGenders)
        /\ (gender_insight.kind = "most") = (Cardinality(TopGenders) = 1)
        /\ \A g \in TopGenders :
              /\ gender_insight.count = Number(GenderCount(g), 0)
              /\ gender_insight.percent =
                    Number(round_half_even(1000 * GenderCount(g), Len(df_filtered)), 1)

\* two groups share the maximum, and a third gender value is missing
C8_Witness ==
    /\ Shown("gender_insight")
    /\ gender_insight.kind = "equal"
    /\ Len(gender_insight.names) = 2
    /\ Len(df_filtered) > 2

\* C9: the funnel's counts are the view's size n, floor(0.8 n) and
\* floor(0.75 n), and they do not increase.
C9_FunnelStages ==
    Shown("funnel") =>
        /\ patient_flow = <<Len(df_filtered), (4 * Len(df_filtered)) \div 5,
                            (3 * Len(df_filtered)) \div 4>>
        /\ patient_flow[1] >= patient_flow[2]
        /\ patient_flow[2] >= patient_flow[3]
        /\ patient_flow[3] >= 0

\* the funnel of a view of 2000 rows
C9_Witness ==
    /\ Shown("funnel")
    /\ Len(df_filtered) = SampleCap
    /\ patient_flow = <<2000, 1600, 1500>>

\* C10: over a non-empty view the gender counts add up to the view's size,
\* so that the percentages add up to 100.
C10_GenderCountsCoverView ==
    (Shown("gender_pie") /\ Len(df_filtered) > 0) =>
        /\ sum_of([i \in 1..Len(df_gender_counts) |-> df_gender_counts[i].Count])
              = Len(df_filtered)
        /\ sum_of([i \in 1..Len(df_gender_counts) |-> df_gender_counts[i].Percentage.num])
              = 100 * Len(df_filtered)

====
